---- MODULE Spec2Model ----
(***************************************************************************)
(* A model of jkettleb/dreq: the stash-code extractor and the Request      *)
(* record of cmip6_gdoc.py, and the snapshot diff of dreq1.17.py.          *)
(*                                                                         *)
(* Text is a sequence of symbols.  A symbol is one character ("m", "0",    *)
(* ":") or a word the regular expressions of the program treat as a unit   *)
(* ("HadGEM3_variable_mapping", "(comment:", "time", "alev", "Pt").  A     *)
(* Python value is a record [t, v]: t is "none" (None), "str" (v is the    *)
(* text), "num" (a number read from a cell, v its digits) or "float" (the  *)
(* result of float(), v its canonical digits).                            *)
(***************************************************************************)
EXTENDS Integers, Sequences, FiniteSets, TLC

VARIABLES
    entry,          \* stashlist_from_mapping_entry: its argument
    pc,             \* stashlist_from_mapping_entry: the line it is at
    range_patterns, \* its local range_patterns
    retval,         \* its local retval (a list of codes)
    returned,       \* the value it returned
    exc,            \* the exception that left it ("" for none)
    rec,            \* a Request (the fields the properties read)
    got,            \* the properties of rec evaluated so far
    stash_codes,    \* value of rec.stash_codes
    is_hadgem3,     \* value of rec.is_hadgem3
    inferred_plan,  \* value of rec.inferred_plan
    freq_ok,        \* what good_freq(rec) ended with
    included,       \* what include(rec) ended with, and the filter that rejected
    printed,        \* the filters whose FILTER line was printed
    v1,             \* records_diffs: the old snapshot
    v2,             \* records_diffs: the new snapshot
    dpc,            \* records_diffs: the line it is at
    updates,        \* records_diffs: its local updates
    added,          \* records_diffs: its local added (before identify_moves)
    removed,        \* records_diffs: its local removed (before identify_moves)
    diffs           \* the dictionary records_diffs returned

vars == <<entry, pc, range_patterns, retval, returned, exc,
          rec, got, stash_codes, is_hadgem3, inferred_plan,
          freq_ok, included, printed,
          v1, v2, dpc, updates, added, removed, diffs>>

stashVars == <<entry, pc, range_patterns, retval, returned, exc>>
requestVars == <<rec, got, stash_codes, is_hadgem3, inferred_plan>>
filterVars == <<freq_ok, included, printed>>
diffVars == <<v1, v2, dpc, updates, added, removed, diffs>>

----------------------------------------------------------------------------
(* Bounds of the inputs. *)

\* Mapping entries are built from at most MaxPieces pieces.
MaxPieces == 2
\* Sections of the generated codes are 0..MaxSection.
MaxSection == 1
\* Items of the generated codes are ItemLo..ItemLo+ItemSpan (they cross 009/010).
ItemLo == 8
ItemSpan == 3
\* A snapshot holds at most MaxRecs records.
MaxRecs == 2

----------------------------------------------------------------------------
(* Python values. *)

None == [t |-> "none", v |-> <<>>]
Str(s) == [t |-> "str", v |-> s]
Num(ds) == [t |-> "num", v |-> ds]
Float(ds) == [t |-> "float", v |-> ds]

IsNone(a) == a.t = "none"
IsStr(a) == a.t = "str"

\* bool(a): None and the empty string are false; a number is false when zero.
Truthy(a) ==
    CASE a.t = "none" -> FALSE
      [] a.t = "str" -> a.v # <<>>
      [] OTHER -> \E i \in 1..Len(a.v) : a.v[i] \notin {"0", "."}

\* str(a), as text.
PyStr(a) == IF a.t = "none" THEN <<"None">> ELSE a.v

----------------------------------------------------------------------------
(* Characters. *)

Digits == <<"0", "1", "2", "3", "4", "5", "6", "7", "8", "9">>

IsDigit(c) == \E i \in 1..10 : Digits[i] = c

DigitVal(c) == (CHOOSE i \in 1..10 : Digits[i] = c) - 1

\* The symbols of the model in the order of their ASCII spelling.
Alphabet == <<"\n", " ", "(", "(comment:", ")", "*", ",", ".", "/",
              "0", "1", "2", "3", "4", "5", "6", "7", "8", "9", ":", "=",
              "DMS_SURF", "HadGEM3_variable_mapping", "K", "MO_priority",
              "None", "Pt", "_", "a", "alev", "area", "b", "day", "e", "half",
              "i", "latitude", "longitude", "m", "max", "mean", "min", "mon",
              "none", "notes", "pr", "s", "site", "tas", "time", "up", "veg",
              "x", "y">>

Rank(c) == CHOOSE i \in 1..Len(Alphabet) : Alphabet[i] = c

\* a < b for two texts, as Python compares strings.
RECURSIVE LexLess(_, _)
LexLess(a, b) ==
    IF a = <<>> THEN b # <<>>
    ELSE IF b = <<>> THEN FALSE
    ELSE IF Head(a) = Head(b) THEN LexLess(Tail(a), Tail(b))
    ELSE Rank(Head(a)) < Rank(Head(b))

\* sorted(list(set(s))) and sorted(s) for a list of texts.
RECURSIVE SortedSet(_)
SortedSet(S) ==
    IF S = {} THEN <<>>
    ELSE LET m == CHOOSE x \in S : \A y \in S \ {x} : LexLess(x, y)
         IN  <<m>> \o SortedSet(S \ {m})

Range(s) == {s[i] : i \in 1..Len(s)}

\* int(ds) for a text of digits.
RECURSIVE PyInt(_)
PyInt(ds) == IF ds = <<>> THEN 0
           ELSE 10 * PyInt(SubSeq(ds, 1, Len(ds) - 1)) + DigitVal(ds[Len(ds)])

\* "{:0<w>d}".format(n) for n >= 0: the digits of n, zero-padded to width w.
RECURSIVE DigitsOf(_)
DigitsOf(n) == IF n < 10 THEN <<Digits[n + 1]>>
               ELSE DigitsOf(n \div 10) \o <<Digits[(n % 10) + 1]>>

RECURSIVE ZeroPad(_, _)
ZeroPad(ds, w) == IF Len(ds) >= w THEN ds ELSE ZeroPad(<<"0">> \o ds, w)

FormatD(n, w) == ZeroPad(DigitsOf(n), w)

----------------------------------------------------------------------------
(* cmip6_gdoc.py: stashlist_from_mapping_entry. *)

\* STASH_PATTERN matches s at position p.
STASH_PATTERN(s, p) ==
    /\ p + 9 <= Len(s)
    /\ s[p] = "m" /\ s[p + 1] = "0" /\ s[p + 2] = "1" /\ s[p + 3] = "s"
    /\ IsDigit(s[p + 4]) /\ IsDigit(s[p + 5])
    /\ s[p + 6] = "i"
    /\ IsDigit(s[p + 7]) /\ IsDigit(s[p + 8]) /\ IsDigit(s[p + 9])

\* STASH_RANGE_PATTERN matches s at position p.
STASH_RANGE_PATTERN(s, p) ==
    /\ STASH_PATTERN(s, p)
    /\ p + 14 <= Len(s)
    /\ s[p + 10] = ":" /\ s[p + 11] = "i"
    /\ IsDigit(s[p + 12]) /\ IsDigit(s[p + 13]) /\ IsDigit(s[p + 14])

\* STASH_FMT.format(section, item)
STASH_FMT(section, item) ==
    <<"m", "0", "1", "s">> \o FormatD(section, 2) \o <<"i">> \o FormatD(item, 3)

\* STASH_RANGE_PATTERN.findall(s) from position p on: the groups of the
\* non-overlapping matches, left to right.
RECURSIVE FindallRange(_, _)
FindallRange(s, p) ==
    IF p > Len(s) THEN <<>>
    ELSE IF STASH_RANGE_PATTERN(s, p)
    THEN <<<<SubSeq(s, p + 4, p + 5), SubSeq(s, p + 7, p + 9),
             SubSeq(s, p + 12, p + 14)>>>> \o FindallRange(s, p + 15)
    ELSE FindallRange(s, p + 1)

\* STASH_PATTERN.findall(s) from position p on.
RECURSIVE FindallSingle(_, _)
FindallSingle(s, p) ==
    IF p > Len(s) THEN <<>>
    ELSE IF STASH_PATTERN(s, p)
    THEN <<<<SubSeq(s, p + 4, p + 5), SubSeq(s, p + 7, p + 9)>>>>
         \o FindallSingle(s, p + 10)
    ELSE FindallSingle(s, p + 1)

\* A bug of the range expansion: the last item is left out.
ExpandRangeOpen(section, item1, item2) ==
    [k \in 1..(IF item2 > item1 THEN item2 - item1 ELSE 0) |->
        STASH_FMT(section, item1 + k - 1)]

\* [STASH_FMT.format(section, i) for i in range(item1, item2 + 1)]
ExpandRange(section, item1, item2) ==
    [k \in 1..(IF item2 >= item1 THEN item2 - item1 + 1 ELSE 0) |->
        STASH_FMT(section, item1 + k - 1)]

\* The loop over range_patterns: retval += the codes of each range.
RECURSIVE ExpandRanges(_)
ExpandRanges(groups) ==
    IF groups = <<>> THEN <<>>
    ELSE LET j == Head(groups)
         IN  ExpandRange(PyInt(j[1]), PyInt(j[2]), PyInt(j[3]))
             \o ExpandRanges(Tail(groups))

\* The loop over single_patterns: retval.append(the code of each match).
AppendSingles(groups) ==
    [k \in 1..Len(groups) |-> STASH_FMT(PyInt(groups[k][1]), PyInt(groups[k][2]))]

\* What a call ends with: a returned value, or an exception.
Returned(val) == [exc |-> "", val |-> val]
Raised(name) == [exc |-> name, val |-> None]
ListOf(codes) == [t |-> "list", v |-> codes]

\* The except clause of line 37: it calls warnings.warn, and the module does
\* not import warnings, so the name lookup raises NameError before any
\* warning is made and before "return None".
ExceptTypeError == Raised("NameError")

\* The whole function.
stashlist_from_mapping_entry(e) ==
    IF IsNone(e) THEN Returned(None)
    ELSE IF ~IsStr(e) THEN ExceptTypeError
    ELSE Returned(ListOf(SortedSet(Range(
            ExpandRanges(FindallRange(e.v, 1))
            \o AppendSingles(FindallSingle(e.v, 1))))))

\* The function line by line.
CheckNone ==
    /\ pc = "line32"
    /\ IF IsNone(entry)
       THEN /\ pc' = "done"
            /\ returned' = None
       ELSE /\ pc' = "line35"
            /\ UNCHANGED returned
    /\ UNCHANGED <<entry, range_patterns, retval, exc>>

FindRanges ==
    /\ pc = "line35"
    /\ IF IsStr(entry)
       THEN /\ range_patterns' = FindallRange(entry.v, 1)
            /\ pc' = "line41"
            /\ UNCHANGED <<exc, returned>>
       ELSE /\ pc' = "done"
            /\ exc' = ExceptTypeError.exc
            /\ returned' = ExceptTypeError.val
            /\ UNCHANGED range_patterns
    /\ UNCHANGED <<entry, retval>>

AddRanges ==
    /\ pc = "line41"
    /\ retval' = retval \o ExpandRanges(range_patterns)
    /\ pc' = "line46"
    /\ UNCHANGED <<entry, range_patterns, returned, exc>>

AddSingles ==
    /\ pc = "line46"
    /\ retval' = retval \o AppendSingles(FindallSingle(entry.v, 1))
    /\ pc' = "line53"
    /\ UNCHANGED <<entry, range_patterns, returned, exc>>

SortAndReturn ==
    /\ pc = "line53"
    /\ retval' = SortedSet(Range(retval))
    /\ returned' = ListOf(retval')
    /\ pc' = "done"
    /\ UNCHANGED <<entry, range_patterns, exc>>

\* The mapping entries given to the function.
Sections == 0..MaxSection
Items == ItemLo..(ItemLo + ItemSpan)

Pieces ==
    {STASH_FMT(s, i) : s \in Sections, i \in Items}
    \cup {<<":", "i">> \o FormatD(i, 3) : i \in Items}
    \cup {<<" ", "*", " ">>, <<"/">>}

RECURSIVE TextsUpTo(_)
TextsUpTo(n) ==
    IF n = 0 THEN {<<>>}
    ELSE LET prev == TextsUpTo(n - 1)
         IN  prev \cup {t \o p : t \in prev, p \in Pieces}

Entries == {None, Num(<<"1", "0">>)} \cup {Str(t) : t \in TextsUpTo(MaxPieces)}

----------------------------------------------------------------------------
(* Placeholders for the parts of the state a specification does not use. *)

NoRec == [ukesm_component |-> None, variable_mapping |-> None, notes |-> None,
          dimension |-> Str(<<"longitude">>), plan |-> None,
          manual_edit |-> None]

NoDiffs == [added |-> <<>>, removed |-> <<>>, moved |-> <<>>, updated |-> <<>>]

StashIdle ==
    /\ entry = None /\ pc = "idle" /\ range_patterns = <<>> /\ retval = <<>>
    /\ returned = None /\ exc = ""

RequestIdle ==
    /\ rec = NoRec /\ got = {} /\ stash_codes = <<>>
    /\ is_hadgem3 = FALSE /\ inferred_plan = None

FilterIdle ==
    /\ freq_ok = [exc |-> "", val |-> TRUE]
    /\ included = [out |-> [exc |-> "", val |-> TRUE], by |-> ""]
    /\ printed = <<>>

DiffIdle ==
    /\ v1 = <<>> /\ v2 = <<>> /\ dpc = "idle" /\ updates = <<>>
    /\ added = <<>> /\ removed = <<>> /\ diffs = NoDiffs

----------------------------------------------------------------------------
(* The extractor on every entry. *)

InitStash ==
    /\ entry \in Entries
    /\ pc = "line32"
    /\ range_patterns = <<>>
    /\ retval = <<>>
    /\ returned = None
    /\ exc = ""
    /\ RequestIdle
    /\ FilterIdle
    /\ DiffIdle

NextStash ==
    \/ CheckNone /\ UNCHANGED <<requestVars, filterVars, diffVars>>
    \/ FindRanges /\ UNCHANGED <<requestVars, filterVars, diffVars>>
    \/ AddRanges /\ UNCHANGED <<requestVars, filterVars, diffVars>>
    \/ AddSingles /\ UNCHANGED <<requestVars, filterVars, diffVars>>
    \/ SortAndReturn /\ UNCHANGED <<requestVars, filterVars, diffVars>>

SpecStash == InitStash /\ [][NextStash]_vars

----------------------------------------------------------------------------
(* cmip6_gdoc.py: class Request. *)

MODEL == "HadGEM3"
_MODEL_LEVELS == "alev"
_OROG_STASH == STASH_FMT(0, 33)

\* word in text, for a word that is one symbol.
Contains(text, word) == \E i \in 1..Len(text) : text[i] = word

\* The end of the first match of ':(.*?):' whose first colon is at p: the
\* nearest later colon on the same line, or 0.
ClosingColon(s, p) ==
    LET ends == {q \in (p + 1)..Len(s) :
                    /\ s[q] = ":"
                    /\ \A k \in (p + 1)..(q - 1) : s[k] # "\n"}
    IN  IF ends = {} THEN 0 ELSE CHOOSE q \in ends : \A r \in ends : q <= r

\* _HADGEM3.search(s): whether 'HadGEM3_variable_mapping:(.*?):' matches
\* somewhere in s, and group(1) of the leftmost match.
_HADGEM3(s) ==
    LET starts == {p \in 1..(Len(s) - 1) :
                      /\ s[p] = "HadGEM3_variable_mapping"
                      /\ s[p + 1] = ":"
                      /\ ClosingColon(s, p + 1) # 0}
    IN  IF starts = {} THEN [found |-> FALSE, group |-> <<>>]
        ELSE LET p == CHOOSE x \in starts : \A y \in starts : x <= y
             IN  [found |-> TRUE,
                  group |-> SubSeq(s, p + 2, ClosingColon(s, p + 1) - 1)]

\* Request._notes
_notes(r) == r.notes

\* Request._hadgem3_in_notes
_hadgem3_in_notes(r) ==
    IF Truthy(_notes(r)) THEN _HADGEM3(_notes(r).v)
    ELSE [found |-> FALSE, group |-> <<>>]

\* A bug of the override: the notes are never consulted.
RawVariableMapping(r) == r.variable_mapping

\* Request._variable_mapping
_variable_mapping(r) ==
    IF MODEL = "HadGEM3" /\ _hadgem3_in_notes(r).found
    THEN Str(_hadgem3_in_notes(r).group)
    ELSE r.variable_mapping

\* A bug of the orography rule: the code is put first.
StashCodesOrogFirst(r) ==
    IF Truthy(_variable_mapping(r))
    THEN LET result == stashlist_from_mapping_entry(_variable_mapping(r)).val.v
         IN  IF Contains(r.dimension.v, _MODEL_LEVELS)
             THEN <<_OROG_STASH>> \o result
             ELSE result
    ELSE <<>>

\* Request.stash_codes
StashCodes(r) ==
    IF Truthy(_variable_mapping(r))
    THEN LET result == stashlist_from_mapping_entry(_variable_mapping(r)).val.v
         IN  IF Contains(r.dimension.v, _MODEL_LEVELS)
             THEN Append(result, _OROG_STASH)
             ELSE result
    ELSE <<>>

\* 's19' in x
HasS19(x) ==
    \E i \in 1..(Len(x) - 2) : x[i] = "s" /\ x[i + 1] = "1" /\ x[i + 2] = "9"

\* A bug of the applicability rule: 'obgc' is not an excluded component.
IsHadgem3NoObgc(r) ==
    LET has_ukesm1_only_component == r.ukesm_component = Str(<<"chemistry">>)
        has_section19 == \E i \in 1..Len(StashCodes(r)) : HasS19(StashCodes(r)[i])
        has_co2_ukesm1 == \E i \in 1..Len(StashCodes(r)) :
                             StashCodes(r)[i] \in {STASH_FMT(0, 251), STASH_FMT(0, 252)}
    IN  ~(has_ukesm1_only_component \/ has_section19 \/ has_co2_ukesm1)

\* Request.is_hadgem3
IsHadgem3(r) ==
    LET has_ukesm1_only_component ==
            r.ukesm_component \in {Str(<<"chemistry">>), Str(<<"obgc">>)}
        has_section19 == \E i \in 1..Len(StashCodes(r)) : HasS19(StashCodes(r)[i])
        has_co2_ukesm1 == \E i \in 1..Len(StashCodes(r)) :
                             StashCodes(r)[i] \in {STASH_FMT(0, 251), STASH_FMT(0, 252)}
    IN  ~(has_ukesm1_only_component \/ has_section19 \/ has_co2_ukesm1)

\* A bug of the plan rule: 'available' is forced only over an empty plan.
InferredPlanKeepsPlan(r) ==
    IF ~Truthy(r.manual_edit) \/ Truthy(r.plan) THEN r.plan
    ELSE Str(<<"available">>)

\* Request.inferred_plan
InferredPlan(r) ==
    IF ~Truthy(r.manual_edit) THEN r.plan ELSE Str(<<"available">>)

\* Reading the three properties of a record, in any order.
GetStashCodes ==
    /\ pc = "idle" /\ "stash_codes" \notin got
    /\ stash_codes' = StashCodes(rec)
    /\ got' = got \cup {"stash_codes"}
    /\ UNCHANGED <<rec, is_hadgem3, inferred_plan>>

GetIsHadgem3 ==
    /\ pc = "idle" /\ "is_hadgem3" \notin got
    /\ is_hadgem3' = IsHadgem3(rec)
    /\ got' = got \cup {"is_hadgem3"}
    /\ UNCHANGED <<rec, stash_codes, inferred_plan>>

GetInferredPlan ==
    /\ pc = "idle" /\ "inferred_plan" \notin got
    /\ inferred_plan' = InferredPlan(rec)
    /\ got' = got \cup {"inferred_plan"}
    /\ UNCHANGED <<rec, stash_codes, is_hadgem3>>

\* The records read: the values of the class's doctests and their neighbours.
\* Every field is a string or None, and dimension is a string (the doctests'
\* new_sample sets it: "'alev' in None" is an error of the caller).
MappingSamples ==
    {None, Str(<<>>),
     Str(STASH_FMT(1, 1)),
     Str(STASH_FMT(1, 1) \o <<"/">> \o STASH_FMT(1, 2)),
     Str(STASH_FMT(8, 248) \o <<" ", "*", " ">> \o STASH_FMT(3, 395)),
     Str(<<"DMS_SURF", " ", "*", " ", "1", "e", "6">>),
     Str(STASH_FMT(19, 1)),
     Str(STASH_FMT(50, 100)),
     Str(STASH_FMT(0, 251)),
     Str(STASH_FMT(0, 252) \o <<"/">> \o STASH_FMT(1, 1)),
     Str(STASH_FMT(0, 33) \o <<"/">> \o STASH_FMT(0, 32))}

OverridePrefix == <<"HadGEM3_variable_mapping", ":">>

NotesSamples ==
    {None, Str(<<>>),
     Str(OverridePrefix \o <<"veg", "(">> \o STASH_FMT(3, 317) \o <<",">>
         \o STASH_FMT(0, 505) \o <<")", ":", "notes", ":">>),
     Str(OverridePrefix \o STASH_FMT(19, 1) \o <<":">>),
     Str(<<"notes", " ">> \o OverridePrefix \o STASH_FMT(0, 252) \o <<":", "x">>),
     Str(OverridePrefix \o <<":">>),
     Str(OverridePrefix \o STASH_FMT(3, 317)),
     Str(OverridePrefix \o STASH_FMT(19, 1) \o <<"\n", ":">>),
     Str(<<"MO_priority", ":", "1", ":">>)}

DimensionSamples ==
    {Str(<<"longitude">>), Str(<<"alev">>),
     Str(<<"longitude", " ", "latitude", " ", "alev", "half", " ", "time">>)}

ComponentSamples == {None, Str(<<"chemistry">>), Str(<<"obgc">>), Str(<<"cloud">>)}

PlanSamples == {None, Str(<<"request-error">>), Str(<<"available">>)}

ManualEditSamples == {None, Str(<<>>), Str(<<"cell_methods corrected">>)}

Requests ==
    [ukesm_component : ComponentSamples, variable_mapping : MappingSamples,
     notes : NotesSamples, dimension : DimensionSamples, plan : PlanSamples,
     manual_edit : ManualEditSamples]

InitRequest ==
    /\ rec \in Requests
    /\ got = {}
    /\ stash_codes = <<>>
    /\ is_hadgem3 = FALSE
    /\ inferred_plan = None
    /\ StashIdle
    /\ FilterIdle
    /\ DiffIdle

NextRequest ==
    \/ GetStashCodes /\ UNCHANGED <<stashVars, filterVars, diffVars>>
    \/ GetIsHadgem3 /\ UNCHANGED <<stashVars, filterVars, diffVars>>
    \/ GetInferredPlan /\ UNCHANGED <<stashVars, filterVars, diffVars>>

SpecRequest == InitRequest /\ [][NextRequest]_vars

----------------------------------------------------------------------------
(* dreq1.17.py: the normalizers. *)

\* Request.mip_id
mip_id(r) == r.miptable.v \o <<"_">> \o r.cmor_label.v

\* The ")" that ends a match of '\(comment:.*\)' starting at p: ".*" is
\* greedy and does not cross a line end, so it is the last ")" of the line
\* (0 when the line has none after p).
LastParen(s, p) ==
    LET ends == {q \in (p + 1)..Len(s) :
                    /\ s[q] = ")"
                    /\ \A k \in (p + 1)..(q - 1) : s[k] # "\n"}
    IN  IF ends = {} THEN 0 ELSE CHOOSE q \in ends : \A r \in ends : q >= r

\* re.sub('\(comment:.*\)', '(comment:..)', s) from position p on.
RECURSIVE SubComment(_, _)
SubComment(s, p) ==
    IF p > Len(s) THEN <<>>
    ELSE IF s[p] = "(comment:" /\ LastParen(s, p) # 0
    THEN <<"(comment:", ".", ".", ")">> \o SubComment(s, LastParen(s, p) + 1)
    ELSE <<s[p]>> \o SubComment(s, p + 1)

\* clean_cell_methods (lines 37 and 75: the same function twice)
clean_cell_methods(a) == Str(SubComment(PyStr(a), 1))

\* The end of a run of digits that starts at p (p - 1 when there is none).
RECURSIVE DigitsEnd(_, _)
DigitsEnd(s, p) ==
    IF p <= Len(s) /\ IsDigit(s[p]) THEN DigitsEnd(s, p + 1) ELSE p - 1

\* re.sub('time\d+', 'time', s) from position p on.
RECURSIVE SubTime(_, _)
SubTime(s, p) ==
    IF p > Len(s) THEN <<>>
    ELSE IF s[p] = "time" /\ DigitsEnd(s, p + 1) > p
    THEN <<"time">> \o SubTime(s, DigitsEnd(s, p + 1) + 1)
    ELSE <<s[p]>> \o SubTime(s, p + 1)

IsSpace(c) == c \in {" ", "\n"}

\* s.split(): the maximal runs of symbols that are not white space; cur is
\* the run being read.
RECURSIVE Split(_, _)
Split(s, cur) ==
    IF s = <<>> THEN (IF cur = <<>> THEN <<>> ELSE <<cur>>)
    ELSE IF IsSpace(Head(s))
    THEN (IF cur = <<>> THEN <<>> ELSE <<cur>>) \o Split(Tail(s), <<>>)
    ELSE Split(Tail(s), Append(cur, Head(s)))

\* sorted(l) for a list of texts.
RECURSIVE Insert(_, _)
Insert(x, l) ==
    IF l = <<>> THEN <<x>>
    ELSE IF LexLess(x, Head(l)) THEN <<x>> \o l
    ELSE <<Head(l)>> \o Insert(x, Tail(l))

RECURSIVE Sorted(_)
Sorted(l) == IF l = <<>> THEN <<>> ELSE Insert(Head(l), Sorted(Tail(l)))

\* _clean_dims
_clean_dims(dim) == Sorted(Split(SubTime(dim.v, 1), <<>>))

\* _clean_freq: re.sub('Pt', '', freq)
_clean_freq(freq) == Str(SelectSeq(freq.v, LAMBDA c : c # "Pt"))

\* same
same(a) == a

\* The digits of s before its first "." and after it.
PointAt(s) == IF Contains(s, ".") THEN CHOOSE i \in 1..Len(s) : s[i] = "."
              ELSE Len(s) + 1
IntPart(s) == SubSeq(s, 1, PointAt(s) - 1)
FracPart(s) == SubSeq(s, PointAt(s) + 1, Len(s))

\* float() accepts s: digits with at most one point and at least one digit
\* (signs, exponents, inf and nan are not among the units modelled).
IsFloatText(s) ==
    /\ \A i \in 1..Len(IntPart(s)) : IsDigit(IntPart(s)[i])
    /\ \A i \in 1..Len(FracPart(s)) : IsDigit(FracPart(s)[i])
    /\ Len(IntPart(s)) + Len(FracPart(s)) > 0

RECURSIVE DropLeadingZeros(_)
DropLeadingZeros(ds) ==
    IF Len(ds) > 1 /\ Head(ds) = "0" THEN DropLeadingZeros(Tail(ds)) ELSE ds

RECURSIVE DropTrailingZeros(_)
DropTrailingZeros(ds) ==
    IF ds # <<>> /\ ds[Len(ds)] = "0"
    THEN DropTrailingZeros(SubSeq(ds, 1, Len(ds) - 1)) ELSE ds

\* float(s): the number, written canonically so that equal numbers are equal.
PyFloat(s) ==
    LET ip == DropLeadingZeros(IF IntPart(s) = <<>> THEN <<"0">> ELSE IntPart(s))
        fp == DropTrailingZeros(FracPart(s))
    IN  Float(IF fp = <<>> THEN ip ELSE ip \o <<".">> \o fp)

\* clean_units
clean_units(a) ==
    IF IsFloatText(PyStr(a)) THEN PyFloat(PyStr(a)) ELSE Str(PyStr(a))

\* clean_positive
clean_positive(a) ==
    IF PyStr(a) \in {<<"None">>, <<"none">>} THEN None ELSE a

\* CMPS
CMPS(field, a) ==
    CASE field = "cell_methods" -> clean_cell_methods(a)
      [] field = "dimension" -> same(a)
      [] field = "units" -> clean_units(a)
      [] field = "positive" -> clean_positive(a)

CmpFields == {"cell_methods", "dimension", "units", "positive"}

\* cmp_records: the dictionary, as a function on the fields that differ.
cmp_records(r1, r2) ==
    [field \in {f \in CmpFields : CMPS(f, r1[f]) # CMPS(f, r2[f])} |->
        <<CMPS(field, r1[field]), CMPS(field, r2[field])>>]

----------------------------------------------------------------------------
(* dreq1.17.py: moves. *)

\* is_move
is_move(a, b) ==
    LET same_cell == clean_cell_methods(a.cell_methods)
                       = clean_cell_methods(b.cell_methods)
        same_dims == _clean_dims(a.dimension) = _clean_dims(b.dimension)
        same_name == a.cf_std_name = b.cf_std_name \/ a.title = b.title
        same_freq == _clean_freq(a.frequency) = _clean_freq(b.frequency)
    IN  same_cell /\ same_dims /\ same_name /\ same_freq

\* The inner loop of find_moves for one a.
RECURSIVE MovesOf(_, _)
MovesOf(a, dels) ==
    IF dels = <<>> THEN <<>>
    ELSE (IF is_move(a, Head(dels)) THEN <<<<a, Head(dels)>>>> ELSE <<>>)
         \o MovesOf(a, Tail(dels))

\* A bug of find_moves: the inner loop stops at the first match.
RECURSIVE FirstMoveOf(_, _)
FirstMoveOf(a, dels) ==
    IF dels = <<>> THEN <<>>
    ELSE IF is_move(a, Head(dels)) THEN <<<<a, Head(dels)>>>>
    ELSE FirstMoveOf(a, Tail(dels))

RECURSIVE FindFirstMoves(_, _)
FindFirstMoves(adds, dels) ==
    IF adds = <<>> THEN <<>>
    ELSE FirstMoveOf(Head(adds), dels) \o FindFirstMoves(Tail(adds), dels)

\* find_moves
RECURSIVE find_moves(_, _)
find_moves(adds, dels) ==
    IF adds = <<>> THEN <<>>
    ELSE MovesOf(Head(adds), dels) \o find_moves(Tail(adds), dels)

\* _from_moves
_from_moves(moves, ind) == [k \in 1..Len(moves) |-> moves[k][ind]]

\* A bug of identify_moves: both filters read the added side of the moves.
IdentifyMovesSameSide(adds, dels) ==
    LET moves == find_moves(adds, dels)
    IN  [moves |-> moves,
         real_adds |-> SelectSeq(adds, LAMBDA x : x \notin Range(_from_moves(moves, 1))),
         real_dels |-> SelectSeq(dels, LAMBDA x : x \notin Range(_from_moves(moves, 1)))]

\* A bug of identify_moves: the kept adds come out in reverse.
IdentifyMovesReversed(adds, dels) ==
    LET moves == find_moves(adds, dels)
        kept == SelectSeq(adds, LAMBDA x : x \notin Range(_from_moves(moves, 1)))
    IN  [moves |-> moves,
         real_adds |-> [k \in 1..Len(kept) |-> kept[Len(kept) + 1 - k]],
         real_dels |-> SelectSeq(dels, LAMBDA x : x \notin Range(_from_moves(moves, 2)))]

\* identify_moves (a move is the tuple (a, d): index 0 is move[1] here)
identify_moves(adds, dels) ==
    LET moves == find_moves(adds, dels)
    IN  [moves |-> moves,
         real_adds |-> SelectSeq(adds, LAMBDA x : x \notin Range(_from_moves(moves, 1))),
         real_dels |-> SelectSeq(dels, LAMBDA x : x \notin Range(_from_moves(moves, 2)))]

----------------------------------------------------------------------------
(* dreq1.17.py: records_diffs. *)

\* _as_set_dict: the identifiers, and the last record of each.
Ids(vals) == {mip_id(vals[i]) : i \in 1..Len(vals)}

\* A bug of _as_set_dict: the first record of an identifier is kept.
AsDictFirst(vals) ==
    [id \in Ids(vals) |->
        vals[CHOOSE i \in 1..Len(vals) :
                /\ mip_id(vals[i]) = id
                /\ \A j \in 1..(i - 1) : mip_id(vals[j]) # id]]

AsDict(vals) ==
    [id \in Ids(vals) |->
        vals[CHOOSE i \in 1..Len(vals) :
                /\ mip_id(vals[i]) = id
                /\ \A j \in (i + 1)..Len(vals) : mip_id(vals[j]) # id]]

\* The orders in which a set of identifiers may be iterated: Python fixes
\* none, it is the order of the hash table.
IterOrders(S) ==
    {f \in [1..Cardinality(S) -> S] : \A i, j \in 1..Cardinality(S) : f[i] = f[j] => i = j}

\* Lines 113-117: the loop over ids1 & ids2.
RECURSIVE UpdatesOf(_, _, _)
UpdatesOf(order, d1, d2) ==
    IF order = <<>> THEN <<>>
    ELSE LET mipid == Head(order)
             cmp == cmp_records(d1[mipid], d2[mipid])
         IN  (IF DOMAIN cmp # {} THEN <<<<d2[mipid], d1[mipid]>>>> ELSE <<>>)
             \o UpdatesOf(Tail(order), d1, d2)

FindUpdates ==
    /\ dpc = "line113"
    /\ \E order \in IterOrders(Ids(v1) \cap Ids(v2)) :
          updates' = UpdatesOf(order, AsDict(v1), AsDict(v2))
    /\ dpc' = "line119"
    /\ UNCHANGED <<v1, v2, added, removed, diffs>>

\* Lines 119-120: the comprehensions over ids2 - ids1 and ids1 - ids2.
FindAddedRemoved ==
    /\ dpc = "line119"
    /\ \E order \in IterOrders(Ids(v2) \ Ids(v1)) :
          added' = [k \in 1..Len(order) |-> AsDict(v2)[order[k]]]
    /\ \E order \in IterOrders(Ids(v1) \ Ids(v2)) :
          removed' = [k \in 1..Len(order) |-> AsDict(v1)[order[k]]]
    /\ dpc' = "line122"
    /\ UNCHANGED <<v1, v2, updates, diffs>>

\* Lines 122-126: identify_moves and the returned dictionary.
ReturnDiffs ==
    /\ dpc = "line122"
    /\ LET im == identify_moves(added, removed)
       IN  diffs' = [added |-> im.real_adds, removed |-> im.real_dels,
                     moved |-> im.moves, updated |-> updates]
    /\ dpc' = "done"
    /\ UNCHANGED <<v1, v2, updates, added, removed>>

NextDiff ==
    \/ FindUpdates /\ UNCHANGED <<stashVars, requestVars, filterVars>>
    \/ FindAddedRemoved /\ UNCHANGED <<stashVars, requestVars, filterVars>>
    \/ ReturnDiffs /\ UNCHANGED <<stashVars, requestVars, filterVars>>

\* The snapshots given to records_diffs.  Identifiers are unique in a
\* snapshot, and the fields the normalizers read are strings.
IdSamples == {<<"Amon", "tas">>, <<"Amon", "pr">>, <<"day", "tas">>}

AreaMean == <<"area", ":", " ", "mean", " ">>

\* Three descriptions of a variable: the first two are the same variable
\* written differently, the third is another frequency.
MoveProfiles ==
    {[cell_methods |-> Str(AreaMean \o <<"(comment:", "a", ")">>),
      dimension |-> Str(<<"longitude", " ", "time">>),
      cf_std_name |-> Str(<<"x">>), title |-> Str(<<"a">>),
      frequency |-> Str(<<"mon">>)],
     [cell_methods |-> Str(AreaMean \o <<"(comment:", "b", ")">>),
      dimension |-> Str(<<"time", "1", " ", "longitude">>),
      cf_std_name |-> Str(<<"x">>), title |-> Str(<<"b">>),
      frequency |-> Str(<<"mon", "Pt">>)],
     [cell_methods |-> Str(AreaMean \o <<"(comment:", "a", ")">>),
      dimension |-> Str(<<"longitude", " ", "time">>),
      cf_std_name |-> Str(<<"x">>), title |-> Str(<<"a">>),
      frequency |-> Str(<<"day">>)]}

MoveRecords ==
    {[miptable |-> Str(<<id[1]>>), cmor_label |-> Str(<<id[2]>>),
      cell_methods |-> p.cell_methods, dimension |-> p.dimension,
      units |-> Str(<<"K">>), positive |-> None,
      cf_std_name |-> p.cf_std_name, title |-> p.title,
      frequency |-> p.frequency] : id \in IdSamples, p \in MoveProfiles}

UniqueIds(vals) == \A i, j \in 1..Len(vals) : mip_id(vals[i]) = mip_id(vals[j]) => i = j

Snapshots(records) ==
    {vals \in UNION {[1..n -> records] : n \in 0..MaxRecs} : UniqueIds(vals)}

InitDiff ==
    /\ v1 \in Snapshots(MoveRecords)
    /\ v2 \in Snapshots(MoveRecords)
    /\ dpc = "line113"
    /\ updates = <<>>
    /\ added = <<>>
    /\ removed = <<>>
    /\ diffs = NoDiffs
    /\ StashIdle
    /\ RequestIdle
    /\ FilterIdle

SpecDiff == InitDiff /\ [][NextDiff]_vars

\* The snapshots as the script reads them (filt=False): nothing makes the
\* identifiers of the rows unique, two rows may describe one identifier.
\* The records are the monthly descriptions, which are moves of each other.
CollideRecords == {r \in MoveRecords : r.frequency # Str(<<"day">>)}

RawSnapshots(records) == UNION {[1..n -> records] : n \in 0..MaxRecs}

InitCollide ==
    /\ v1 \in RawSnapshots(CollideRecords)
    /\ v2 \in RawSnapshots(CollideRecords)
    /\ dpc = "line113"
    /\ updates = <<>>
    /\ added = <<>>
    /\ removed = <<>>
    /\ diffs = NoDiffs
    /\ StashIdle
    /\ RequestIdle
    /\ FilterIdle

SpecCollide == InitCollide /\ [][NextDiff]_vars

\* One record on each side, with every combination of the compared fields.
TimeMax == <<" ", "time", ":", " ", "max", " ", "(", "x", ")">>
TimeMin == <<" ", "time", ":", " ", "min", " ", "(", "x", ")">>

CellMethodsSamples ==
    {None,
     Str(AreaMean \o <<"(comment:", "a", ")">>),
     Str(AreaMean \o <<"(comment:", "b", ")">>),
     Str(<<"area", ":", " ", "max", " ", "(comment:", "a", ")">>),
     Str(AreaMean \o <<"(comment:", "a", ")">> \o TimeMax),
     Str(AreaMean \o <<"(comment:", "a", ")">> \o TimeMin)}

UnitsSamples == {Str(<<"1">>), Str(<<"1", ".", "0">>), Str(<<"K">>)}

PositiveSamples == {None, Str(<<"None">>), Str(<<"up">>)}

UpdateDimensions ==
    {Str(<<"longitude", " ", "time">>), Str(<<"time", " ", "longitude">>)}

UpdateRecords ==
    {[miptable |-> Str(<<"Amon">>), cmor_label |-> Str(<<"tas">>),
      cell_methods |-> c, dimension |-> d, units |-> u, positive |-> p,
      cf_std_name |-> Str(<<"x">>), title |-> Str(<<"a">>),
      frequency |-> Str(<<"mon">>)] :
        c \in CellMethodsSamples, d \in UpdateDimensions,
        u \in UnitsSamples, p \in PositiveSamples}

InitUpdate ==
    /\ \E o \in UpdateRecords : v1 = <<o>>
    /\ \E n \in UpdateRecords : v2 = <<n>>
    /\ dpc = "line113"
    /\ updates = <<>>
    /\ added = <<>>
    /\ removed = <<>>
    /\ diffs = NoDiffs
    /\ StashIdle
    /\ RequestIdle
    /\ FilterIdle

SpecUpdate == InitUpdate /\ [][NextDiff]_vars

----------------------------------------------------------------------------
(* cmip6_gdoc.py: the record filters. *)

\* a in b for two strings: a occurs in b as a run of consecutive characters.
IsSubstring(a, b) ==
    \E i \in 0..(Len(b) - Len(a)) : SubSeq(b, i + 1, i + Len(a)) = a

\* s.strip(): s without its leading and trailing white space.
RECURSIVE LStrip(_)
LStrip(s) ==
    IF s # <<>> /\ IsSpace(Head(s)) THEN LStrip(Tail(s)) ELSE s

RECURSIVE RStrip(_)
RStrip(s) ==
    IF s # <<>> /\ IsSpace(s[Len(s)]) THEN RStrip(SubSeq(s, 1, Len(s) - 1)) ELSE s

Strip(s) == LStrip(RStrip(s))

\* ','.join(codes)
RECURSIVE Join(_)
Join(codes) ==
    IF codes = <<>> THEN <<>>
    ELSE IF Len(codes) = 1 THEN codes[1]
    ELSE codes[1] \o <<",">> \o Join(Tail(codes))

\* Request.stash_codes_needed
stash_codes_needed(r) ==
    IF StashCodes(r) # <<>> THEN Str(Join(StashCodes(r))) ELSE None

\* available(record)
available(r) ==
    IF ~IsNone(InferredPlan(r))
    THEN Returned(Strip(InferredPlan(r).v) \in
                  {<<"available">>, <<"post-process">>, <<"vn10.6">>,
                   <<"vn10.6.1">>, <<"vn10.7">>})
    ELSE Returned(FALSE)

\* not_rogue(record)
not_rogue(r) == Returned(TRUE)

\* good_freq's freqs: ('fx') is the string 'fx', not a one-element tuple.
freqs == <<"f", "x">>

\* good_freq(record): "not in" a string is a substring test, and it raises
\* TypeError when its left operand is None.
good_freq(r) ==
    IF IsNone(r.frequency) THEN Raised("TypeError")
    ELSE Returned(~IsSubstring(r.frequency.v, freqs))

\* not_site(record)
not_site(r) == Returned(~Contains(r.dimension.v, "site"))

\* hadgem3(record)
hadgem3(r) == Returned(IsHadgem3(r))

\* has_stash(record)
has_stash(r) == Returned(~IsNone(stash_codes_needed(r)))

\* The filters wrapped by @log_filter.
Logged == {"not_rogue", "good_freq", "hadgem3"}

\* The filters of include, in the order compound_filter receives them.
IncludeFilters ==
    <<"available", "good_freq", "not_site", "has_stash", "hadgem3", "not_rogue">>

\* Calling one filter by its name.
ApplyFilter(name, r) ==
    CASE name = "available" -> available(r)
      [] name = "good_freq" -> good_freq(r)
      [] name = "not_site" -> not_site(r)
      [] name = "has_stash" -> has_stash(r)
      [] name = "hadgem3" -> hadgem3(r)
      [] name = "not_rogue" -> not_rogue(r)

\* log_filter's _logged: the FILTER line is printed when the result is falsy.
log_filter(name, out) ==
    IF name \in Logged /\ out.exc = "" /\ ~out.val THEN <<name>> ELSE <<>>

\* compound_filter's filter(record): all() over the filters in order stops at
\* the first falsy result, and an exception of a filter ends the call. The
\* result names the filter that ended it ("" when every filter passed).
RECURSIVE compound_filter(_, _)
compound_filter(names, r) ==
    IF names = <<>> THEN [out |-> Returned(TRUE), by |-> ""]
    ELSE LET o == ApplyFilter(Head(names), r)
         IN  IF o.exc # "" THEN [out |-> o, by |-> Head(names)]
             ELSE IF ~o.val THEN [out |-> Returned(FALSE), by |-> Head(names)]
             ELSE compound_filter(Tail(names), r)

\* include(record)
include(r) == compound_filter(IncludeFilters, r)

\* The two calls made on a record, in either order.
CallGoodFreq ==
    /\ pc = "idle" /\ "good_freq" \notin got
    /\ freq_ok' = good_freq(rec)
    /\ printed' = printed \o log_filter("good_freq", good_freq(rec))
    /\ got' = got \cup {"good_freq"}
    /\ UNCHANGED <<rec, stash_codes, is_hadgem3, inferred_plan, included>>

CallInclude ==
    /\ pc = "idle" /\ "include" \notin got
    /\ included' = include(rec)
    /\ printed' = printed \o log_filter(include(rec).by, include(rec).out)
    /\ got' = got \cup {"include"}
    /\ UNCHANGED <<rec, stash_codes, is_hadgem3, inferred_plan, freq_ok>>

NextFilter ==
    \/ CallGoodFreq /\ UNCHANGED <<stashVars, diffVars>>
    \/ CallInclude /\ UNCHANGED <<stashVars, diffVars>>

\* The records filtered: the frequencies around 'fx', and for the other
\* filters the values of their doctests.
FrequencySamples ==
    {None, Str(<<>>), Str(<<"f">>), Str(<<"x">>), Str(<<"f", "x">>),
     Str(<<"x", "f">>), Str(<<"mon">>)}

FilterPlanSamples ==
    {None, Str(<<"available">>), Str(<<" ", "do-not-produce", " ">>),
     Str(<<" ", "vn10.6", "\n">>)}

FilterDimensionSamples ==
    {Str(<<"time", " ", "latitude">>), Str(<<"time", " ", "site">>),
     Str(<<"alev">>)}

FilterMappingSamples == {None, Str(STASH_FMT(1, 1)), Str(STASH_FMT(19, 1))}

FilterRequests ==
    [frequency : FrequencySamples, plan : FilterPlanSamples,
     manual_edit : {None, Str(<<"cell_methods corrected">>)},
     dimension : FilterDimensionSamples,
     variable_mapping : FilterMappingSamples,
     ukesm_component : {None, Str(<<"chemistry">>)}, notes : {None}]

InitFilter ==
    /\ rec \in FilterRequests
    /\ got = {}
    /\ stash_codes = <<>>
    /\ is_hadgem3 = FALSE
    /\ inferred_plan = None
    /\ FilterIdle
    /\ StashIdle
    /\ DiffIdle

SpecFilter == InitFilter /\ [][NextFilter]_vars

----------------------------------------------------------------------------
(* The claims. *)

\* The records only in the new snapshot and only in the old one.
OnlyNew == {v2[i] : i \in {k \in 1..Len(v2) : mip_id(v2[k]) \notin Ids(v1)}}
OnlyOld == {v1[i] : i \in {k \in 1..Len(v1) : mip_id(v1[k]) \notin Ids(v2)}}

\* The rows of a snapshot that stand for their identifier: the last row of
\* each identifier.
LastRows(vals) ==
    {vals[i] : i \in {k \in 1..Len(vals) :
                         \A j \in (k + 1)..Len(vals) : mip_id(vals[j]) # mip_id(vals[k])}}

\* The records records_diffs classifies as only new and as only old.
NewOnlyRows == OnlyNew \cap LastRows(v2)
OldOnlyRows == OnlyOld \cap LastRows(v1)

Count(list, x) == Cardinality({k \in 1..Len(list) : list[k] = x})

\* C1: when records_diffs has returned, every pair (a, d) of a record a only
\* in the new snapshot and a record d only in the old one with is_move(a, d)
\* has a out of 'added', d out of 'removed', and occurs once in 'moved'.
C1_MoveReciprocity ==
    dpc = "done" =>
        \A a \in NewOnlyRows, d \in OldOnlyRows :
            is_move(a, d) =>
                /\ a \notin Range(diffs.added)
                /\ d \notin Range(diffs.removed)
                /\ Count(diffs.moved, <<a, d>>) = 1

\* C1's case: a move was found beside an add that is no move.
C1_Witness ==
    /\ dpc = "done"
    /\ \E a \in OnlyNew, d \in OnlyOld : is_move(a, d)
    /\ diffs.added # <<>>

\* C2 as stated: no record is in two pairs of 'moved'.
C2_AtMostOnePair ==
    dpc = "done" =>
        \A k, l \in 1..Len(diffs.moved) :
            k # l => /\ diffs.moved[k][1] # diffs.moved[l][1]
                     /\ diffs.moved[k][2] # diffs.moved[l][2]

\* C2, amended: 'moved' repeats no pair, and a record is in as many pairs as
\* it has matches on the other side (every match is paired, not the first).
C2_EveryMatchPaired ==
    dpc = "done" =>
        /\ \A k, l \in 1..Len(diffs.moved) :
              k # l => diffs.moved[k] # diffs.moved[l]
        /\ \A a \in NewOnlyRows :
              Count(_from_moves(diffs.moved, 1), a)
                = Cardinality({d \in OldOnlyRows : is_move(a, d)})
        /\ \A d \in OldOnlyRows :
              Count(_from_moves(diffs.moved, 2), d)
                = Cardinality({a \in NewOnlyRows : is_move(a, d)})

\* C2's case: an added record that matches two removed records.
C2_Witness ==
    /\ dpc = "done"
    /\ \E a \in OnlyNew : Cardinality({d \in OnlyOld : is_move(a, d)}) = 2
    /\ Len(diffs.moved) = 2

\* The ")" nearest after p on the same line: where the parenthetical that
\* opens at p ends (0 when the line has none).
NearestParen(s, p) ==
    LET ends == {q \in (p + 1)..Len(s) :
                    /\ s[q] = ")"
                    /\ \A k \in (p + 1)..(q - 1) : s[k] # "\n"}
    IN  IF ends = {} THEN 0 ELSE CHOOSE q \in ends : \A r \in ends : q <= r

\* A text with the content of each (comment:...) parenthetical taken out.
RECURSIVE OutsideComments(_, _)
OutsideComments(s, p) ==
    IF p > Len(s) THEN <<>>
    ELSE IF s[p] = "(comment:" /\ NearestParen(s, p) # 0
    THEN <<"(comment:", ")">> \o OutsideComments(s, NearestParen(s, p) + 1)
    ELSE <<s[p]>> \o OutsideComments(s, p + 1)

\* What C3 calls a difference of two records on the compared fields.
C3_Differ(n, o) ==
    \/ OutsideComments(PyStr(n.cell_methods), 1)
         # OutsideComments(PyStr(o.cell_methods), 1)
    \/ n.dimension # o.dimension
    \/ clean_units(n.units) # clean_units(o.units)
    \/ clean_positive(n.positive) # clean_positive(o.positive)

\* C3 as stated: an identifier of both snapshots is in 'updated' exactly when
\* a compared field differs, where cell_methods differ when their text
\* outside the (comment:...) parentheticals differs.
C3_UpdatedIffDiffer ==
    dpc = "done" =>
        \A id \in Ids(v1) \cap Ids(v2) :
            (<<AsDict(v2)[id], AsDict(v1)[id]>> \in Range(diffs.updated))
                <=> C3_Differ(AsDict(v2)[id], AsDict(v1)[id])

\* The expression 'm01sXXiAAA:iBBB'.
RangeExpression(section, item1, item2) ==
    STASH_FMT(section, item1) \o <<":", "i">> \o FormatD(item2, 3)

CodesOfRange(section, item1, item2) ==
    {STASH_FMT(section, n) : n \in item1..item2}

\* C4 as stated: for every section and items, the expression yields the
\* codes of item1..item2, each once.
C4_RangeExpansion ==
    pc = "done" =>
        \A s \in Sections, a \in Items, b \in Items :
            entry = Str(RangeExpression(s, a, b)) =>
                /\ returned.t = "list"
                /\ Range(returned.v) = CodesOfRange(s, a, b)
                /\ Len(returned.v) = Cardinality(CodesOfRange(s, a, b))

\* C4, amended: so it is when item1 <= item2; when item1 > item2 the result
\* is the one code m01sXXiAAA.
C4_RangeExpansionOrdered ==
    pc = "done" =>
        \A s \in Sections, a \in Items, b \in Items :
            entry = Str(RangeExpression(s, a, b)) =>
                /\ returned.t = "list"
                /\ exc = ""
                /\ a <= b =>
                      /\ Range(returned.v) = CodesOfRange(s, a, b)
                      /\ Len(returned.v) = b - a + 1
                /\ a > b => returned.v = <<STASH_FMT(s, a)>>

\* C4's case: a range over 009/010 was expanded.
C4_Witness ==
    /\ pc = "done"
    /\ \E s \in Sections, a \in Items, b \in Items :
          /\ entry = Str(RangeExpression(s, a, b))
          /\ a < 10 /\ b >= 10
    /\ returned.t = "list"
    /\ Len(returned.v) >= 2

\* C5 as stated: the function never raises, and returns None for None and
\* for an entry that is not a string.
C5_NeverRaises ==
    pc = "done" =>
        /\ exc = ""
        /\ ~IsStr(entry) => returned = None

\* C6 as stated: whenever the dimension contains 'alev', stash_codes ends
\* with the orography code.
C6_OrographyAlways ==
    ("stash_codes" \in got /\ Contains(rec.dimension.v, "alev")) =>
        /\ stash_codes # <<>>
        /\ stash_codes[Len(stash_codes)] = STASH_FMT(0, 33)

\* The codes of a mapping text.
CodesOf(text) == stashlist_from_mapping_entry(Str(text)).val.v

\* C6, amended: when the dimension contains 'alev', stash_codes is the codes
\* of the effective mapping followed by the orography code if the effective
\* mapping is a non-empty string, and is empty if it is empty or None.
C6_OrographyAfterMapping ==
    ("stash_codes" \in got /\ Contains(rec.dimension.v, "alev")) =>
        IF Truthy(_variable_mapping(rec))
        THEN stash_codes = Append(CodesOf(_variable_mapping(rec).v), STASH_FMT(0, 33))
        ELSE stash_codes = <<>>

\* C6's case: model levels and a mapping with a code.
C6_Witness ==
    /\ "stash_codes" \in got
    /\ Contains(rec.dimension.v, "alev")
    /\ Len(stash_codes) >= 2
    /\ stash_codes[Len(stash_codes)] = STASH_FMT(0, 33)

\* The override of a record's notes.
HasOverride(r) == Truthy(r.notes) /\ _HADGEM3(r.notes.v).found
OverrideExpr(r) == _HADGEM3(r.notes.v).group

\* C7 as stated: with an override in the notes and a non-empty
\* variable_mapping, the codes of stash_codes are those of the override.
C7_OverrideCodesOnly ==
    ("stash_codes" \in got /\ HasOverride(rec) /\ Truthy(rec.variable_mapping)) =>
        Range(stash_codes) = Range(CodesOf(OverrideExpr(rec)))

\* C7, amended: they are those of the override, and the orography code when
\* the dimension contains 'alev' and the override expression is not empty.
C7_OverrideCodesAndOrography ==
    ("stash_codes" \in got /\ HasOverride(rec) /\ Truthy(rec.variable_mapping)) =>
        Range(stash_codes) =
            Range(CodesOf(OverrideExpr(rec)))
            \cup (IF Contains(rec.dimension.v, "alev") /\ OverrideExpr(rec) # <<>>
                  THEN {STASH_FMT(0, 33)} ELSE {})

\* C7's case: the override and the raw mapping name different codes.
C7_Witness ==
    /\ "stash_codes" \in got
    /\ HasOverride(rec)
    /\ Truthy(rec.variable_mapping)
    /\ CodesOf(OverrideExpr(rec)) # <<>>
    /\ CodesOf(rec.variable_mapping.v) # <<>>
    /\ Range(CodesOf(OverrideExpr(rec))) \cap Range(CodesOf(rec.variable_mapping.v)) = {}
    /\ Range(stash_codes) = Range(CodesOf(OverrideExpr(rec)))

\* The section of a code: its two digits after "s".
SectionOf(code) == PyInt(SubSeq(code, 5, 6))

\* The codes of the effective mapping: of the override expression when the
\* notes hold one, of variable_mapping otherwise.
EffectiveCodes(r) ==
    IF HasOverride(r) THEN CodesOf(OverrideExpr(r))
    ELSE IF Truthy(r.variable_mapping) THEN CodesOf(r.variable_mapping.v)
    ELSE <<>>

\* C8: is_hadgem3 is true exactly when the component is neither 'chemistry'
\* nor 'obgc', no code of the effective mapping is of section 19, and none
\* is m01s00i251 or m01s00i252.
C8_IsHadgem3Nor ==
    "is_hadgem3" \in got =>
        (is_hadgem3 <=>
            ~ \/ rec.ukesm_component \in {Str(<<"chemistry">>), Str(<<"obgc">>)}
              \/ \E c \in Range(EffectiveCodes(rec)) : SectionOf(c) = 19
              \/ \E c \in Range(EffectiveCodes(rec)) :
                    c \in {<<"m", "0", "1", "s", "0", "0", "i", "2", "5", "1">>,
                           <<"m", "0", "1", "s", "0", "0", "i", "2", "5", "2">>})

\* C8's case: only the override names a section 19 code, and it excludes.
C8_Witness ==
    /\ "is_hadgem3" \in got
    /\ ~is_hadgem3
    /\ rec.ukesm_component = Str(<<"cloud">>)
    /\ HasOverride(rec)
    /\ rec.variable_mapping = Str(STASH_FMT(1, 1))
    /\ \E c \in Range(CodesOf(OverrideExpr(rec))) : SectionOf(c) = 19

\* C9: inferred_plan is 'available' when manual_edit is a non-empty string,
\* and plan when manual_edit is empty or None.
C9_PlanInference ==
    "inferred_plan" \in got =>
        /\ (IsStr(rec.manual_edit) /\ rec.manual_edit.v # <<>>) =>
              inferred_plan = Str(<<"available">>)
        /\ (IsNone(rec.manual_edit) \/ rec.manual_edit = Str(<<>>)) =>
              inferred_plan = rec.plan

\* C9's case: a manual edit over a plan of 'request-error'.
C9_Witness ==
    /\ "inferred_plan" \in got
    /\ rec.manual_edit = Str(<<"cell_methods corrected">>)
    /\ rec.plan = Str(<<"request-error">>)
    /\ inferred_plan = Str(<<"available">>)

\* The place of a record in a list.
Pos(list, x) == CHOOSE i \in 1..Len(list) : list[i] = x

\* The records of list come in the order they have in ref.
InOrderOf(list, ref) ==
    \A i, j \in 1..Len(list) : i < j => Pos(ref, list[i]) <= Pos(ref, list[j])

\* C10 as stated: the collections keep the order of the snapshots.
C10_SnapshotOrder ==
    dpc = "done" =>
        /\ InOrderOf(diffs.added, v2)
        /\ InOrderOf(_from_moves(diffs.moved, 1), v2)
        /\ InOrderOf(_from_moves(diffs.updated, 1), v2)
        /\ InOrderOf(diffs.removed, v1)

\* C10, amended: nothing is sorted, and the order is that in which the sets
\* of identifiers were iterated: 'added' and 'removed' keep the order of the
\* lists built from ids2 - ids1 and ids1 - ids2, and 'moved' follows the
\* first of them, then the second.
C10_IterationOrder ==
    dpc = "done" =>
        /\ InOrderOf(diffs.added, added)
        /\ InOrderOf(diffs.removed, removed)
        /\ InOrderOf(_from_moves(diffs.moved, 1), added)
        /\ \A k, l \in 1..Len(diffs.moved) :
              (k < l /\ diffs.moved[k][1] = diffs.moved[l][1]) =>
                  Pos(removed, diffs.moved[k][2]) < Pos(removed, diffs.moved[l][2])

\* C10's case: two records were added and come out against the snapshot.
C10_Witness ==
    /\ dpc = "done"
    /\ Len(diffs.added) = 2
    /\ Pos(v2, diffs.added[1]) > Pos(v2, diffs.added[2])

\* C11 (as the claim states it): good_freq returns False exactly when the
\* record's frequency is 'fx' and True for every other frequency value, and
\* include rejects a record on frequency grounds only when its frequency is
\* 'fx'.
C11_GoodFreqOnlyFx ==
    /\ "good_freq" \in got =>
           freq_ok = Returned(rec.frequency # Str(<<"f", "x">>))
    /\ "include" \in got /\ included.by = "good_freq" =>
           rec.frequency = Str(<<"f", "x">>)

\* The codes of stash_codes that come from the mapping: all of them but the
\* orography code put at the end for a dimension with 'alev'.
MappingDerived(codes, r) ==
    IF codes # <<>> /\ Contains(r.dimension.v, "alev")
    THEN SubSeq(codes, 1, Len(codes) - 1)
    ELSE codes

NoCodeTwice(codes) ==
    \A i, j \in 1..Len(codes) : i # j => codes[i] # codes[j]

Ascending(codes) ==
    \A i \in 1..(Len(codes) - 1) : LexLess(codes[i], codes[i + 1])

\* C12 (as the claim states it): for every record, no code occurs twice in
\* stash_codes, whatever the effective mapping and the dimension (a dimension
\* with 'alev' included), and the mapping-derived codes are in ascending
\* lexicographic order.
C12_Deduplicated ==
    "stash_codes" \in got =>
        /\ NoCodeTwice(stash_codes)
        /\ Ascending(MappingDerived(stash_codes, rec))

\* The records in the final collections.
MovedFirst == {diffs.moved[k][1] : k \in 1..Len(diffs.moved)}
MovedSecond == {diffs.moved[k][2] : k \in 1..Len(diffs.moved)}
Reported == Range(diffs.added) \cup Range(diffs.removed) \cup MovedFirst \cup MovedSecond

\* C13 (as the claim states it): every record of the new snapshot whose
\* identifier is absent from the old one is in exactly one of final 'added'
\* and the first elements of 'moved'; every record of the old snapshot whose
\* identifier is absent from the new one is in exactly one of final 'removed'
\* and the second elements of 'moved'; and no identifier of both snapshots
\* occurs in 'added', 'removed' or 'moved'.
C13_EveryRecordOnce ==
    dpc = "done" =>
        /\ \A a \in OnlyNew : (a \in Range(diffs.added)) # (a \in MovedFirst)
        /\ \A d \in OnlyOld : (d \in Range(diffs.removed)) # (d \in MovedSecond)
        /\ \A x \in Reported : mip_id(x) \notin Ids(v1) \cap Ids(v2)

\* C13, amended: records_diffs accounts for every identifier once, by the
\* last row of the identifier in its snapshot. The last row of an identifier
\* only in the new snapshot is either once in final 'added' or a first
\* element of 'moved', never both and never neither; the last row of an
\* identifier only in the old snapshot is either once in final 'removed' or a
\* second element of 'moved', never both and never neither; 'added' and the
\* first elements hold nothing else, 'removed' and the second elements hold
\* nothing else (an earlier row of a repeated identifier is in no collection
\* unless it equals the last), and no identifier of both snapshots occurs in
\* any of them.
C13_EveryIdentifierOnce ==
    dpc = "done" =>
        /\ \A a \in NewOnlyRows :
              /\ (a \in Range(diffs.added)) # (a \in MovedFirst)
              /\ Count(diffs.added, a) <= 1
        /\ \A d \in OldOnlyRows :
              /\ (d \in Range(diffs.removed)) # (d \in MovedSecond)
              /\ Count(diffs.removed, d) <= 1
        /\ Range(diffs.added) \cup MovedFirst = NewOnlyRows
        /\ Range(diffs.removed) \cup MovedSecond = OldOnlyRows
        /\ \A x \in Reported : mip_id(x) \notin Ids(v1) \cap Ids(v2)

\* C13's case: the new snapshot has two different rows of one identifier
\* that the old snapshot lacks; the last one is paired as a move with the
\* old snapshot's record, and the earlier row is in no collection.
C13_Witness ==
    /\ dpc = "done"
    /\ \E i, j \in 1..Len(v2) :
          /\ i < j
          /\ mip_id(v2[i]) = mip_id(v2[j])
          /\ mip_id(v2[j]) \notin Ids(v1)
          /\ v2[j] \in LastRows(v2)
          /\ v2[i] \notin Reported
          /\ v2[j] \in MovedFirst
    /\ diffs.added = <<>>
    /\ diffs.removed = <<>>

====
